---- MODULE Spec2Model ----
(***************************************************************************)
(* Model of the transaction-insight snap and its two serverless handlers:  *)
(*   - packages/snap/src/index.ts  (onTransaction, onRpcRequest)           *)
(*   - the GPT completion handler  (getResponseData and its helpers)       *)
(*   - the Lens profile handler    (handler, getDefaultProfile)            *)
(*                                                                         *)
(* Strings are sequences of tokens.  The keyword "function" is one token,  *)
(* every other token is one character.                                     *)
(***************************************************************************)
EXTENDS Integers, Sequences, FiniteSets, TLC

VARIABLES
    \* getFunctionSourceCode, run on its own
    xCode, xName, xOut, xPc,
    \* getContractFunctionDetails, run on its own
    dAbi, dData, dOut, dPc,
    \* the completion handler: getResponseData
    pPc, query, metaReply, gptReply, contractDetails, contractFunctionDetails,
    functionSourceCode, ResponseData, completionCalls, consoleError,
    \* the snap: onRpcRequest, onTransaction
    snapState, worldIdBound, txPc, transaction, txData, lookups, txResult,
    lastRpc, setDataCompleted,
    \* the profile handler
    reqs

snippetVars  == <<xCode, xName, xOut, xPc>>
resolverVars == <<dAbi, dData, dOut, dPc>>
pipelineVars == <<pPc, query, metaReply, gptReply, contractDetails,
                  contractFunctionDetails, functionSourceCode, ResponseData,
                  completionCalls, consoleError>>
snapVars == <<snapState, worldIdBound, txPc, transaction, txData, lookups,
              txResult, lastRpc, setDataCompleted>>
vars == <<snippetVars, resolverVars, pipelineVars, snapVars, reqs>>

(***************************************************************************)
(* Bounds                                                                  *)
(***************************************************************************)
MaxCodeLen == 5
MaxNameLen == 1
MaxAbiLen  == 3
MaxWords   == 2
MaxRequests == 2

RECURSIVE SeqsUpTo(_, _)
SeqsUpTo(S, n) ==
    IF n = 0 THEN {<<>>}
    ELSE LET shorter == SeqsUpTo(S, n - 1)
         IN  shorter \cup {Append(s, c) : s \in {t \in shorter : Len(t) = n - 1}, c \in S}

RECURSIVE Concat(_)
Concat(ss) == IF ss = <<>> THEN <<>> ELSE Head(ss) \o Concat(Tail(ss))

(***************************************************************************)
(* Source snippet extractor: getFunctionSourceCode                         *)
(***************************************************************************)
delimiter == "function"
NameChars == {"t", "x"}
CodeChars == NameChars \cup {delimiter, "{", "\n"}

\* String.prototype.split on the delimiter: n occurrences give n + 1 pieces
RECURSIVE splitFrom(_, _)
splitFrom(str, cur) ==
    IF str = <<>> THEN <<cur>>
    ELSE IF Head(str) = delimiter
         THEN <<cur>> \o splitFrom(Tail(str), <<>>)
         ELSE splitFrom(Tail(str), Append(cur, Head(str)))

split(contractCode) == splitFrom(contractCode, <<>>)

\* the literal functionName at position i of item
LiteralAt(item, i, name) ==
    /\ i + Len(name) - 1 <= Len(item)
    /\ \A k \in 1..Len(name) : item[i + k - 1] = name[k]

\* ".*{" from position j: '.' takes any character but a line terminator
RECURSIVE DotStarBrace(_, _)
DotStarBrace(item, j) ==
    IF j > Len(item) THEN FALSE
    ELSE IF item[j] = "{" THEN TRUE
    ELSE IF item[j] = "\n" THEN FALSE
    ELSE DotStarBrace(item, j + 1)

\* the same pattern anchored at the start of the segment
patternTestAnchored(item, functionName) ==
    /\ LiteralAt(item, 1, functionName)
    /\ DotStarBrace(item, 1 + Len(functionName))

\* new RegExp(`(${functionName}.*{)`).test(item): unanchored search
patternTest(item, functionName) ==
    \E i \in 1..(Len(item) + 1) :
        /\ LiteralAt(item, i, functionName)
        /\ DotStarBrace(item, i + Len(functionName))

RECURSIVE forEachItem(_, _, _)
forEachItem(stringArray, functionName, acc) ==
    IF stringArray = <<>> THEN acc
    ELSE forEachItem(Tail(stringArray), functionName,
                     IF patternTest(Head(stringArray), functionName)
                     THEN acc \o Head(stringArray)
                     ELSE acc)

getFunctionSourceCode(contractCode, functionName) ==
    forEachItem(split(contractCode), functionName, <<>>)

(***************************************************************************)
(* ABI function resolver: getContractFunctionDetails                       *)
(***************************************************************************)
FragmentTypes == {"function", "event"}
FragmentNames == {"transfer", "approve"}
Fragments == [type : FragmentTypes, name : FragmentNames, inputs : 1..2]

\* the 4-byte selector of a fragment's canonical signature name(type,...):
\* one number per (name, input list)
Selector(frag) ==
    (CASE frag.name = "transfer" -> 10
       [] frag.name = "approve"  -> 20
       [] OTHER                  -> 90) + frag.inputs
\* the selector of a function that no ABI here declares
UnknownSelector == Selector([type |-> "function", name |-> "burn", inputs |-> 1])
NotHex == <<-1>>

\* contractABI is the explorer's ABI field: "" (missing), text that is not
\* JSON, or the JSON text of an array of fragments
AbiOf(frags) == [text |-> "array", frags |-> frags]
MalformedAbi == [text |-> "malformed", frags |-> <<>>]
MissingAbi   == [text |-> "", frags |-> <<>>]

\* call data: the selector (first 4 bytes) followed by 32-byte words
isHexString(data) == \A i \in 1..Len(data) : data[i] >= 0

emptyDetails == [functionName |-> "", functionArgs |-> <<>>, functionAbi |-> <<>>]
Return(v) == [kind |-> "return", value |-> v]
Throw(e)  == [kind |-> "throw", value |-> e]

\* Interface.getFunction(selector): the first function fragment with it
RECURSIVE getFunction(_, _)
getFunction(frags, sel) ==
    IF frags = <<>> THEN <<>>
    ELSE IF Head(frags).type = "function" /\ Selector(Head(frags)) = sel
         THEN <<Head(frags)>>
         ELSE getFunction(Tail(frags), sel)

\* Interface.parseTransaction({data}): null (<<>>) when no function has
\* the selector, a description when one has, an exception when the
\* argument words run out
parseTransaction(frags, data) ==
    LET found == getFunction(frags, IF Len(data) >= 1 THEN data[1] ELSE 0)
    IN  IF found = <<>> THEN Return(<<>>)
        ELSE IF Len(data) - 1 < found[1].inputs THEN Throw("BUFFER_OVERRUN")
        ELSE Return(<<[name |-> found[1].name,
                       args |-> SubSeq(data, 2, 1 + found[1].inputs)]>>)

\* arrContractABI.find(item => item.type === "function" && item.name === functionName)
RECURSIVE find(_, _)
find(arrContractABI, functionName) ==
    IF arrContractABI = <<>> THEN <<>>
    ELSE IF Head(arrContractABI).type = "function"
            /\ Head(arrContractABI).name = functionName
         THEN <<Head(arrContractABI)>>
         ELSE find(Tail(arrContractABI), functionName)

\* the description is used without the null check
detailsOfDecodedUnchecked(contractABI, decodedFunctionData) ==
    IF decodedFunctionData = <<>> THEN Throw("TypeError")
    ELSE Return([functionName |-> decodedFunctionData[1].name,
                 functionArgs |-> decodedFunctionData[1].args,
                 functionAbi  |-> find(contractABI.frags, decodedFunctionData[1].name)])

detailsOfDecoded(contractABI, decodedFunctionData) ==
    IF decodedFunctionData = <<>> THEN Return(emptyDetails)
    ELSE Return([functionName |-> decodedFunctionData[1].name,
                 functionArgs |-> decodedFunctionData[1].args,
                 functionAbi  |-> find(contractABI.frags, decodedFunctionData[1].name)])

getContractFunctionDetails(inputData, contractABI) ==
    IF contractABI.text # "array" THEN Throw("INVALID_ARGUMENT abi")
    ELSE IF ~isHexString(inputData) THEN Throw("INVALID_ARGUMENT data")
    ELSE LET parsed == parseTransaction(contractABI.frags, inputData)
         IN  IF parsed.kind = "throw" THEN parsed
             ELSE detailsOfDecoded(contractABI, parsed.value)

(***************************************************************************)
(* Snap: results and lookups of onTransaction                              *)
(***************************************************************************)
Lookups == {"lensProfile", "lensApprovedAddressList", "gptCompletion"}
NoResult == [kind |-> "none", heading |-> ""]
NotHumanPanel == [kind |-> "panel", heading |-> "Not a unique human!!"]
InsightsPanel == [kind |-> "panel", heading |-> "Lens Insights"]
Threw(e) == [kind |-> "throw", heading |-> e]
NoTransaction == [from |-> "", to |-> "", data |-> "", chainId |-> ""]
NoRpc == [method |-> "", outcome |-> "", before |-> <<>>]

(***************************************************************************)
(* Profile handler: one record per HTTP request                            *)
(***************************************************************************)
NewRequest ==
    [pc |-> "new", method |-> "", walletAddress |-> "", status |-> 0,
     allow |-> "", body |-> "", responses |-> 0, queries |-> 0]

\* a component that takes no part in a specification stays as it is here
SnapIdle ==
    /\ snapState = <<>>
    /\ worldIdBound = FALSE
    /\ txPc = "off"
    /\ transaction = NoTransaction
    /\ txData = <<>>
    /\ lookups = [l \in Lookups |-> "idle"]
    /\ txResult = NoResult
    /\ lastRpc = NoRpc
    /\ setDataCompleted = FALSE
ProfileIdle == reqs = <<>>
SnippetIdle  == xCode = <<>> /\ xName = <<>> /\ xOut = <<>> /\ xPc = "off"
ResolverIdle == dAbi = MissingAbi /\ dData = <<>> /\ dOut = Return(emptyDetails) /\ dPc = "off"

(***************************************************************************)
(* Completion handler: getResponseData and its helpers                     *)
(***************************************************************************)
\* the warning of line 44, without its bracket characters
WARNING ==
    "WARNING The safety of the function you are trying to execute cannot be confirmed because it has not verified."
Text(t) == [kind |-> "text", body |-> t]

\* the catch block answers with the upstream error's own message
catchErrorWithDetail(error) == [kind |-> "error", body |-> error]

\* catch (error) { console.error(error); return { error: 'An Error Occurred' } }
catchError(error) == [kind |-> "error", body |-> "An Error Occurred"]

SupportedChainIds == {1, 5, 137, 59140, 80001}

\* "" stands for false
getContractDetailsApiEndpoint(chainId) ==
    CASE chainId = 1     -> "api.etherscan.io"
      [] chainId = 5     -> "api-goerli.etherscan.io"
      [] chainId = 137   -> "api.polygonscan.com"
      [] chainId = 59140 -> "explorer.goerli.linea.build"
      [] chainId = 80001 -> "api-testnet.polygonscan.com"
      [] OTHER           -> ""

\* the explorer's result[0] is used without looking at its ABI field
detailsOfResultNoAbiCheck(result) ==
    IF result = <<>> THEN <<>>
    ELSE IF result[1].ContractName = "" \/ result[1].SourceCode = <<>>
         THEN <<>>
         ELSE <<[contractName |-> result[1].ContractName,
                 contractCode |-> result[1].SourceCode,
                 abi          |-> result[1].ABI]>>

\* getContractDetails after the explorer answered: <<>> stands for false.
\* A null result and an empty array are both the empty sequence.
detailsOfResult(result) ==
    IF result = <<>> THEN <<>>
    ELSE IF result[1].ContractName = "" \/ result[1].SourceCode = <<>>
            \/ result[1].ABI.text = ""
         THEN <<>>
         ELSE <<[contractName |-> result[1].ContractName,
                 contractCode |-> result[1].SourceCode,
                 abi          |-> result[1].ABI]>>

\* a function name as the text put into the pattern
NameText(functionName) == IF functionName = "" THEN <<>> ELSE <<functionName>>

\* what the explorer may hold for a contract
TransferOne == [type |-> "function", name |-> "transfer", inputs |-> 1]
TransferTwo == [type |-> "function", name |-> "transfer", inputs |-> 2]
SourceCodes ==
    { <<>>,
      <<"function", "transfer", "{", "function", "approve", "{">>,
      <<"function", "transfer", "\n", "{">> }
ExplorerAbis ==
    { MissingAbi, MalformedAbi, AbiOf(<<TransferTwo>>), AbiOf(<<TransferOne, TransferTwo>>) }
ExplorerEntries ==
    [ContractName : {"", "Token"}, SourceCode : SourceCodes, ABI : ExplorerAbis]
ExplorerResults == {<<>>} \cup {<<e>> : e \in ExplorerEntries}
MetaErrors == {"ETIMEDOUT", "Request failed with status code 500"}
MetaReplies ==
    {[kind |-> "error", error |-> e, result |-> <<>>] : e \in MetaErrors}
    \cup {[kind |-> "ok", error |-> "", result |-> r] : r \in ExplorerResults}
NoReply == [kind |-> "none", error |-> "", result |-> <<>>]

\* what the completion service may answer: axios rejects a transport
\* failure and a status outside 2xx; a 2xx answer resolves
GptReplies ==
    { [kind |-> "rejected", status |-> 0,   choices |-> <<>>, error |-> "ECONNRESET"],
      [kind |-> "rejected", status |-> 500, choices |-> <<>>,
       error |-> "Request failed with status code 500"],
      [kind |-> "resolved", status |-> 201, choices |-> <<>>, error |-> ""],
      [kind |-> "resolved", status |-> 200, choices |-> <<>>, error |-> ""],
      [kind |-> "resolved", status |-> 200, choices |-> <<"summary">>, error |-> ""] }
NoGptReply == [kind |-> "none", status |-> 0, choices |-> <<>>, error |-> ""]

InputDatas ==
    { <<Selector(TransferTwo), 7, 7>>, <<Selector(TransferTwo), 7>>,
      <<UnknownSelector, 7>>, NotHex }
QueryChainIds == SupportedChainIds \cup {56}

PipelineIdle ==
    /\ pPc = "off"
    /\ query = [chainId |-> 0, inputData |-> <<>>]
    /\ metaReply = NoReply
    /\ gptReply = NoGptReply
    /\ contractDetails = <<>>
    /\ contractFunctionDetails = <<>>
    /\ functionSourceCode = <<>>
    /\ ResponseData = Text("")
    /\ completionCalls = 0
    /\ consoleError = ""

InitPipeline ==
    /\ pPc = "idle"
    /\ query = [chainId |-> 0, inputData |-> <<>>]
    /\ metaReply = NoReply
    /\ gptReply = NoGptReply
    /\ contractDetails = <<>>
    /\ contractFunctionDetails = <<>>
    /\ functionSourceCode = <<>>
    /\ ResponseData = Text("")
    /\ completionCalls = 0
    /\ consoleError = ""
    /\ SnippetIdle
    /\ ResolverIdle
    /\ SnapIdle
    /\ ProfileIdle

\* the request arrives; getContractDetails picks the explorer endpoint and,
\* when the chain is not supported, returns false at once
ReceiveRequest ==
    /\ pPc = "idle"
    /\ \E c \in QueryChainIds, d \in InputDatas :
          query' = [chainId |-> c, inputData |-> d]
    /\ IF getContractDetailsApiEndpoint(query'.chainId) = ""
       THEN /\ ResponseData' = Text(WARNING)
            /\ pPc' = "done"
       ELSE /\ pPc' = "metadata"
            /\ UNCHANGED ResponseData
    /\ UNCHANGED <<metaReply, gptReply, contractDetails, contractFunctionDetails,
                   functionSourceCode, completionCalls, consoleError>>
    /\ UNCHANGED <<snippetVars, resolverVars, snapVars, reqs>>

\* axios.get rejects: the catch block answers
MetadataFails ==
    /\ pPc = "metadata"
    /\ \E r \in {m \in MetaReplies : m.kind = "error"} :
          /\ metaReply' = r
          /\ consoleError' = r.error
          /\ ResponseData' = catchError(r.error)
    /\ pPc' = "done"
    /\ UNCHANGED <<query, gptReply, contractDetails, contractFunctionDetails,
                   functionSourceCode, completionCalls>>
    /\ UNCHANGED <<snippetVars, resolverVars, snapVars, reqs>>

\* axios.get resolves, and the handler runs on to its next await or return
MetadataArrives ==
    /\ pPc = "metadata"
    /\ \E r \in {m \in MetaReplies : m.kind = "ok"} :
          /\ metaReply' = r
          /\ contractDetails' = detailsOfResult(r.result)
    /\ gptReply' = gptReply
    /\ query' = query
    /\ IF contractDetails' = <<>>
       THEN \* not verified: the warning is returned
            /\ ResponseData' = Text(WARNING)
            /\ pPc' = "done"
            /\ UNCHANGED <<contractFunctionDetails, functionSourceCode,
                           completionCalls, consoleError>>
       ELSE LET details == getContractFunctionDetails(query.inputData,
                                                      contractDetails'[1].abi)
            IN  IF details.kind = "throw"
                THEN /\ consoleError' = details.value
                     /\ ResponseData' = catchError(details.value)
                     /\ pPc' = "done"
                     /\ UNCHANGED <<contractFunctionDetails, functionSourceCode,
                                    completionCalls>>
                ELSE /\ contractFunctionDetails' = <<details.value>>
                     /\ functionSourceCode' =
                            getFunctionSourceCode(contractDetails'[1].contractCode,
                                                  NameText(details.value.functionName))
                     \* getGptCompletion posts the prompt
                     /\ completionCalls' = completionCalls + 1
                     /\ pPc' = "completion"
                     /\ UNCHANGED <<ResponseData, consoleError>>
    /\ UNCHANGED <<snippetVars, resolverVars, snapVars, reqs>>

\* what getGptCompletion throws for an answer, "" when it returns
completionError(r) ==
    IF r.kind = "rejected" THEN r.error
    ELSE IF r.status # 200 THEN "Failed to get GPT completion."
    ELSE IF r.choices = <<>> THEN "TypeError: choices[0] is undefined"
    ELSE ""

\* axios.post rejects, or resolves with a status other than 200, or with a
\* body that holds no choice: the catch block answers
CompletionFails ==
    /\ pPc = "completion"
    /\ \E r \in {g \in GptReplies : completionError(g) # ""} :
          /\ gptReply' = r
          /\ consoleError' = completionError(r)
          /\ ResponseData' = catchError(completionError(r))
    /\ pPc' = "done"
    /\ UNCHANGED <<query, metaReply, contractDetails, contractFunctionDetails,
                   functionSourceCode, completionCalls>>
    /\ UNCHANGED <<snippetVars, resolverVars, snapVars, reqs>>

\* axios.post resolves with status 200: the first message is the answer
CompletionArrives ==
    /\ pPc = "completion"
    /\ \E r \in {g \in GptReplies : completionError(g) = ""} :
          /\ gptReply' = r
          /\ ResponseData' = Text(r.choices[1])
    /\ pPc' = "done"
    /\ UNCHANGED <<query, metaReply, contractDetails, contractFunctionDetails,
                   functionSourceCode, completionCalls, consoleError>>
    /\ UNCHANGED <<snippetVars, resolverVars, snapVars, reqs>>

NextPipeline ==
    \/ ReceiveRequest
    \/ MetadataFails
    \/ MetadataArrives
    \/ CompletionFails
    \/ CompletionArrives
SpecPipeline == InitPipeline /\ [][NextPipeline]_vars


(***************************************************************************)
(* Specification of the extractor alone                                    *)
(***************************************************************************)

InitSnippet ==
    /\ xCode \in SeqsUpTo(CodeChars, MaxCodeLen)
    /\ xName \in SeqsUpTo(NameChars, MaxNameLen)
    /\ xOut = <<>>
    /\ xPc = "ready"
    /\ ResolverIdle
    /\ PipelineIdle
    /\ SnapIdle
    /\ ProfileIdle

ExtractSnippet ==
    /\ xPc = "ready"
    /\ xOut' = getFunctionSourceCode(xCode, xName)
    /\ xPc' = "done"
    /\ UNCHANGED <<xCode, xName, resolverVars, pipelineVars, snapVars, reqs>>

NextSnippet == ExtractSnippet
SpecSnippet == InitSnippet /\ [][NextSnippet]_vars

(***************************************************************************)
(* Specification of the resolver alone                                     *)
(***************************************************************************)
CallDatas ==
    {NotHex} \cup
    {<<s>> \o w : s \in {Selector(f) : f \in Fragments} \cup {UnknownSelector},
                  w \in SeqsUpTo({7}, MaxWords)} \cup {<<>>}

InitResolver ==
    /\ dAbi \in {MalformedAbi} \cup {AbiOf(f) : f \in SeqsUpTo(Fragments, MaxAbiLen)}
    /\ dData \in CallDatas
    /\ dOut = Return(emptyDetails)
    /\ dPc = "ready"
    /\ SnippetIdle
    /\ PipelineIdle
    /\ SnapIdle
    /\ ProfileIdle

ResolveCall ==
    /\ dPc = "ready"
    /\ dOut' = getContractFunctionDetails(dData, dAbi)
    /\ dPc' = "done"
    /\ UNCHANGED <<dAbi, dData, snippetVars, pipelineVars, snapVars, reqs>>

NextResolver == ResolveCall
SpecResolver == InitResolver /\ [][NextResolver]_vars


(***************************************************************************)
(* Specification of the snap: onRpcRequest and onTransaction               *)
(***************************************************************************)
WorldIds == {"undefined", "0x2a"}
Transactions ==
    [from : {"", "0xd19B"}, to : {"", "0xC0"}, data : {"", "0xa9059cbb"},
     chainId : {"", "eip155:1"}]

\* what fetch and response.json() may do for one lookup
FetchOutcomes == {"200", "500", "network error", "invalid json"}

\* getLensProfile, getLensApprovedAddressList and getGptCompletion alike:
\* a rejected fetch, a response that is not ok and a body that is not JSON
\* reject the lookup
lookupResult(outcome) == IF outcome = "200" THEN "ok" ELSE "fail"

\* the flag is taken from the stored state
isVerifiedFromStoredState == snapState # <<>>

\* const isVerifiedWorldId = false
isVerifiedWorldId == FALSE

\* the join settles as soon as one lookup has succeeded
joinFulfilledByAny(ls) == \E l \in Lookups : ls[l] = "ok"

\* Promise.all fulfils when every lookup has succeeded
joinFulfilled(ls) == \A l \in Lookups : ls[l] = "ok"

\* Promise.all rejects when one lookup has failed
joinRejected(ls) == \E l \in Lookups : ls[l] = "fail"

missingParameters(t) == t.from = "" \/ t.to = "" \/ t.data = "" \/ t.chainId = ""

InitSnap ==
    /\ snapState = <<>>
    /\ worldIdBound \in BOOLEAN
    /\ txPc = "idle"
    /\ transaction = NoTransaction
    /\ txData = <<>>
    /\ lookups = [l \in Lookups |-> "idle"]
    /\ txResult = NoResult
    /\ lastRpc = NoRpc
    /\ setDataCompleted = FALSE
    /\ SnippetIdle
    /\ ResolverIdle
    /\ PipelineIdle
    /\ ProfileIdle

\* onRpcRequest, method setData
RpcSetData ==
    /\ \E w \in WorldIds : snapState' = <<[worldId |-> w]>>
    /\ lastRpc' = [method |-> "setData", outcome |-> "returned", before |-> snapState]
    /\ setDataCompleted' = TRUE
    /\ UNCHANGED <<worldIdBound, txPc, transaction, txData, lookups, txResult>>
    /\ UNCHANGED <<snippetVars, resolverVars, pipelineVars, reqs>>

\* onRpcRequest, method getData
RpcGetData ==
    /\ lastRpc' = [method |-> "getData", outcome |-> "returned", before |-> snapState]
    /\ UNCHANGED <<snapState, worldIdBound, txPc, transaction, txData, lookups,
                   txResult, setDataCompleted>>
    /\ UNCHANGED <<snippetVars, resolverVars, pipelineVars, reqs>>

\* onRpcRequest, any other method
RpcOtherMethod ==
    /\ lastRpc' = [method |-> "other", outcome |-> "Method not found.",
                   before |-> snapState]
    /\ UNCHANGED <<snapState, worldIdBound, txPc, transaction, txData, lookups,
                   txResult, setDataCompleted>>
    /\ UNCHANGED <<snippetVars, resolverVars, pipelineVars, reqs>>

\* onTransaction up to its first return, throw, or the await of the join.
\* Line 91 reads the free identifier worldId, which the file never
\* declares: the read throws unless the realm binds that name.
TxStart ==
    /\ txPc \in {"idle", "done"}
    /\ \A l \in Lookups : lookups[l] # "pending"
    /\ \E t \in Transactions : transaction' = t
    /\ txData' = snapState
    /\ IF ~worldIdBound
       THEN /\ txResult' = Threw("ReferenceError: worldId is not defined")
            /\ txPc' = "done"
            /\ lookups' = [l \in Lookups |-> "idle"]
       ELSE IF txData' = <<>>
       THEN /\ txResult' = NotHumanPanel
            /\ txPc' = "done"
            /\ lookups' = [l \in Lookups |-> "idle"]
       ELSE IF missingParameters(transaction')
       THEN /\ txResult' = Threw("Missing required parameters")
            /\ txPc' = "done"
            /\ lookups' = [l \in Lookups |-> "idle"]
       ELSE /\ txResult' = NoResult
            /\ txPc' = "awaiting"
            /\ lookups' = [l \in Lookups |-> "pending"]
    /\ UNCHANGED <<snapState, worldIdBound, lastRpc, setDataCompleted>>
    /\ UNCHANGED <<snippetVars, resolverVars, pipelineVars, reqs>>

\* one lookup settles
LookupSettles ==
    /\ \E l \in Lookups, o \in FetchOutcomes :
          /\ lookups[l] = "pending"
          /\ lookups' = [lookups EXCEPT ![l] = lookupResult(o)]
    /\ UNCHANGED <<snapState, worldIdBound, txPc, transaction, txData, txResult,
                   lastRpc, setDataCompleted>>
    /\ UNCHANGED <<snippetVars, resolverVars, pipelineVars, reqs>>

\* the join fulfils and onTransaction renders
TxJoinFulfils ==
    /\ txPc = "awaiting"
    /\ joinFulfilled(lookups)
    /\ txResult' = IF ~isVerifiedWorldId THEN NotHumanPanel ELSE InsightsPanel
    /\ txPc' = "done"
    /\ UNCHANGED <<snapState, worldIdBound, transaction, txData, lookups,
                   lastRpc, setDataCompleted>>
    /\ UNCHANGED <<snippetVars, resolverVars, pipelineVars, reqs>>

\* the join rejects and onTransaction throws; the other lookups go on
TxJoinRejects ==
    /\ txPc = "awaiting"
    /\ joinRejected(lookups)
    /\ txResult' = Threw("HTTP error")
    /\ txPc' = "done"
    /\ UNCHANGED <<snapState, worldIdBound, transaction, txData, lookups,
                   lastRpc, setDataCompleted>>
    /\ UNCHANGED <<snippetVars, resolverVars, pipelineVars, reqs>>

NextSnap ==
    \/ RpcSetData
    \/ RpcGetData
    \/ RpcOtherMethod
    \/ TxStart
    \/ LookupSettles
    \/ TxJoinFulfils
    \/ TxJoinRejects
SpecSnap == InitSnap /\ [][NextSnap]_vars

(***************************************************************************)
(* Specification of the profile handler                                    *)
(***************************************************************************)
Methods == {"GET", "POST", "PUT"}
KnownWallet == "0xd19B53464bBD3289823b278efb0461a903271004"
WalletAddresses == {KnownWallet, "0x00"}

\* the handle that getDefaultProfile answers with
handleOf(walletAddress) ==
    IF walletAddress = KnownWallet THEN "yusaka.test" ELSE "sakasaka.test"

InitProfile ==
    /\ reqs = [r \in 1..MaxRequests |-> NewRequest]
    /\ SnippetIdle
    /\ ResolverIdle
    /\ PipelineIdle
    /\ SnapIdle

\* handler: a GET starts getDefaultProfile and does not wait for it
HandleGet ==
    /\ \E r \in DOMAIN reqs, w \in WalletAddresses :
          /\ reqs[r].pc = "new"
          /\ reqs' = [reqs EXCEPT ![r] =
                 [@ EXCEPT !.pc = "querying", !.method = "GET",
                           !.walletAddress = w, !.queries = @ + 1]]
    /\ UNCHANGED <<snippetVars, resolverVars, pipelineVars, snapVars>>

\* handler: any other method is answered 405 with the Allow header
HandleOtherMethod ==
    /\ \E r \in DOMAIN reqs, m \in Methods \ {"GET"}, w \in WalletAddresses :
          /\ reqs[r].pc = "new"
          /\ reqs' = [reqs EXCEPT ![r] =
                 [@ EXCEPT !.pc = "done", !.method = m, !.walletAddress = w,
                           !.allow = "GET", !.status = 405,
                           !.body = "Method Not Allowed",
                           !.responses = @ + 1]]
    /\ UNCHANGED <<snippetVars, resolverVars, pipelineVars, snapVars>>

\* apolloClient.query resolves: getDefaultProfile answers 200
QueryResolves ==
    /\ \E r \in DOMAIN reqs :
          /\ reqs[r].pc = "querying"
          /\ reqs' = [reqs EXCEPT ![r] =
                 [@ EXCEPT !.pc = "done", !.status = 200,
                           !.body = handleOf(reqs[r].walletAddress),
                           !.responses = @ + 1]]
    /\ UNCHANGED <<snippetVars, resolverVars, pipelineVars, snapVars>>

\* apolloClient.query rejects: the promise of getDefaultProfile, which
\* nothing awaits or catches, rejects, and res is never used
QueryRejects ==
    /\ \E r \in DOMAIN reqs :
          /\ reqs[r].pc = "querying"
          /\ reqs' = [reqs EXCEPT ![r] = [@ EXCEPT !.pc = "rejected"]]
    /\ UNCHANGED <<snippetVars, resolverVars, pipelineVars, snapVars>>

NextProfile ==
    \/ HandleGet
    \/ HandleOtherMethod
    \/ QueryResolves
    \/ QueryRejects
SpecProfile == InitProfile /\ [][NextProfile]_vars

(***************************************************************************)
(* Claims about the extractor                                              *)
(***************************************************************************)
\* a segment that starts with the name, with an opening brace anywhere after it
StartsWithNameThenBrace(seg, name) ==
    /\ Len(seg) >= Len(name)
    /\ SubSeq(seg, 1, Len(name)) = name
    /\ \E p \in (Len(name) + 1)..Len(seg) : seg[p] = "{"

\* a segment that holds the name anywhere, with an opening brace after it
\* before the line ends
HoldsNameThenBraceOnLine(seg, name) ==
    \E i \in 1..(Len(seg) + 1) : \E p \in (i + Len(name))..Len(seg) :
        /\ SubSeq(seg, i, i + Len(name) - 1) = name
        /\ seg[p] = "{"
        /\ \A q \in (i + Len(name))..(p - 1) : seg[q] # "\n"

SegmentsStartingWith(code, name) ==
    LET Test(seg) == StartsWithNameThenBrace(seg, name) IN SelectSeq(split(code), Test)

SegmentsHolding(code, name) ==
    LET Test(seg) == HoldsNameThenBraceOnLine(seg, name) IN SelectSeq(split(code), Test)

\* C5 (as stated): the snippet is the concatenation, in source order, of
\* exactly the segments that start with functionName followed eventually by
\* an opening brace, and is empty when there is none.
C5_SnippetIsSegmentsStartingWithName ==
    xPc = "done" => xOut = Concat(SegmentsStartingWith(xCode, xName))

\* C5 (amended): the snippet is the concatenation, in source order, of
\* exactly the segments that hold functionName anywhere, followed later on
\* the same line by an opening brace; it is empty when there is none.
C5_SnippetIsSegmentsHoldingName ==
    xPc = "done" => xOut = Concat(SegmentsHolding(xCode, xName))

\* two declarations of the same name are both extracted
C5_Witness ==
    /\ xPc = "done"
    /\ xName = <<"t">>
    /\ Len(split(xCode)) = 2
    /\ Len(SegmentsHolding(xCode, xName)) = 2
    /\ xOut = <<"t", "{", "t", "{">>

(***************************************************************************)
(* Claims about the resolver                                               *)
(***************************************************************************)
WellFormedCall == dAbi.text = "array" /\ isHexString(dData)
CalledSelector == IF Len(dData) >= 1 THEN dData[1] ELSE 0
FunctionsWithSelector ==
    {i \in 1..Len(dAbi.frags) :
        dAbi.frags[i].type = "function" /\ Selector(dAbi.frags[i]) = CalledSelector}

\* C2: when no function fragment of the ABI has the selector of the call
\* data, the resolver returns the DecodedCall with empty name, no arguments
\* and no fragment, and does not throw.
C2_NoMatchReturnsEmptyDetails ==
    (dPc = "done" /\ WellFormedCall /\ FunctionsWithSelector = {})
        => dOut = Return(emptyDetails)

C2_Witness ==
    /\ dPc = "done"
    /\ WellFormedCall
    /\ Len(dAbi.frags) = 2
    /\ dAbi.frags[1].type = "function"
    /\ dData = <<UnknownSelector, 7>>
    /\ dOut = Return(emptyDetails)

\* C4: when a function fragment has the selector of the call data, the
\* functionAbi returned is that fragment, also among overloads and beside a
\* non-function entry of the same name.
C4_FunctionAbiIsSelectedFragment ==
    (dPc = "done" /\ WellFormedCall /\ dOut.kind = "return")
        => \A i \in FunctionsWithSelector : dOut.value.functionAbi = <<dAbi.frags[i]>>

(***************************************************************************)
(* Claims about the completion handler                                     *)
(***************************************************************************)
GenericFailure == [kind |-> "error", body |-> "An Error Occurred"]

\* the metadata lookup yields "not verified": the chain is not supported,
\* or the explorer answered with no result, or with a result that lacks
\* the contract's name, source or ABI
NotVerifiedLookup ==
    \/ query.chainId \notin SupportedChainIds
    \/ /\ metaReply.kind = "ok"
       /\ \/ metaReply.result = <<>>
          \/ metaReply.result[1].ContractName = ""
          \/ metaReply.result[1].SourceCode = <<>>
          \/ metaReply.result[1].ABI.text = ""

\* C1: a request whose metadata lookup yields "not verified" ends with the
\* literal warning string, and the completion service is not called in it.
C1_NotVerifiedReturnsWarning ==
    (pPc \notin {"off", "idle"} /\ NotVerifiedLookup)
        => /\ pPc = "done"
           /\ ResponseData = Text(WARNING)
           /\ completionCalls = 0
           /\ gptReply = NoGptReply

\* a supported chain, a named contract with source, and no ABI
C1_Witness ==
    /\ pPc = "done"
    /\ query.chainId = 137
    /\ metaReply.kind = "ok"
    /\ metaReply.result # <<>>
    /\ metaReply.result[1].ContractName = "Token"
    /\ metaReply.result[1].SourceCode # <<>>
    /\ metaReply.result[1].ABI.text = ""
    /\ ResponseData = Text(WARNING)

NoFragmentMatched ==
    /\ contractFunctionDetails # <<>>
    /\ contractFunctionDetails[1].functionName = ""

\* C3: when the resolver returns the empty-name DecodedCall, the handler
\* answers with a message and submits no prompt to the completion service.
C3_NoMatchSubmitsNoPrompt ==
    NoFragmentMatched
        => /\ completionCalls = 0
           /\ pPc = "done"
           /\ ResponseData.kind = "text"

DecodeThrew ==
    /\ contractDetails # <<>>
    /\ getContractFunctionDetails(query.inputData, contractDetails[1].abi).kind = "throw"

\* C8: a metadata transport failure, a decode error and a failed completion
\* each end the request with the one generic failure value, which holds
\* nothing of the upstream error, and no later step of the pipeline runs;
\* an empty snippet alone does not end the request.
C8_ErrorsEndInGenericFailure ==
    /\ (pPc = "done" /\ metaReply.kind = "error")
          => /\ ResponseData = GenericFailure
             /\ contractDetails = <<>>
             /\ contractFunctionDetails = <<>>
             /\ completionCalls = 0
    /\ (pPc = "done" /\ DecodeThrew)
          => /\ ResponseData = GenericFailure
             /\ contractFunctionDetails = <<>>
             /\ functionSourceCode = <<>>
             /\ completionCalls = 0
    /\ (pPc = "done" /\ gptReply.kind # "none" /\ completionError(gptReply) # "")
          => ResponseData = GenericFailure
    /\ (contractFunctionDetails # <<>> /\ functionSourceCode = <<>>)
          => /\ completionCalls = 1
             /\ (pPc = "done" /\ completionError(gptReply) = "")
                   => ResponseData = Text(gptReply.choices[1])
    /\ ResponseData.kind = "error" => ResponseData.body # consoleError

\* the completion service answers 201 to a prompt with an empty snippet
C8_Witness ==
    /\ pPc = "done"
    /\ contractFunctionDetails # <<>>
    /\ contractFunctionDetails[1].functionName = "transfer"
    /\ functionSourceCode = <<>>
    /\ gptReply.status = 201
    /\ consoleError = "Failed to get GPT completion."
    /\ ResponseData = GenericFailure

(***************************************************************************)
(* Claims about the snap                                                   *)
(***************************************************************************)
Launched == \A l \in Lookups : lookups[l] # "idle"

\* C6: the three lookups are launched together; nothing is rendered while
\* the join is awaited; a panel after the launch means all three lookups
\* succeeded; once a lookup has failed onTransaction can only end by
\* throwing; and a lookup still in flight then stays in flight.
C6_AllOrNothingJoin ==
    /\ Launched \/ \A l \in Lookups : lookups[l] = "idle"
    /\ txPc = "awaiting" => (txResult = NoResult /\ Launched)
    /\ (txPc = "done" /\ Launched /\ txResult.kind = "panel")
          => \A l \in Lookups : lookups[l] = "ok"
    /\ (txPc = "done" /\ \E l \in Lookups : lookups[l] = "fail")
          => txResult = Threw("HTTP error")
    /\ \A l \in Lookups : lookups[l] \in {"idle", "pending", "ok", "fail"}

\* one lookup failed, one succeeded, one is still in flight, and
\* onTransaction has already thrown
C6_Witness ==
    /\ txPc = "done"
    /\ txResult = Threw("HTTP error")
    /\ lookups["lensProfile"] = "ok"
    /\ lookups["lensApprovedAddressList"] = "fail"
    /\ lookups["gptCompletion"] = "pending"

\* C7: onTransaction never returns the panel of the verified branch; every
\* panel it returns is the 'Not a unique human!!' panel.
C7_VerifiedBranchNeverTaken ==
    /\ txResult # InsightsPanel
    /\ (txPc = "done" /\ txResult.kind = "panel") => txResult = NotHumanPanel

\* a stored worldId, all three lookups succeeded, and still the same panel
C7_Witness ==
    /\ txPc = "done"
    /\ snapState = <<[worldId |-> "0x2a"]>>
    /\ txData = snapState
    /\ \A l \in Lookups : lookups[l] = "ok"
    /\ txResult = NotHumanPanel

\* C10: lookups are launched only after a setData has completed; an
\* onTransaction that finds no stored state returns the 'Not a unique
\* human!!' panel and makes no network call; getData and unknown methods
\* leave the stored state as it was.
C10_NoStateMeansPanelAndNoLookup ==
    /\ Launched => setDataCompleted
    /\ (txPc = "done" /\ txData = <<>>)
          => (txResult = NotHumanPanel /\ ~Launched)
    /\ lastRpc.method \in {"getData", "other"} => snapState = lastRpc.before
    /\ lastRpc.method = "other" => lastRpc.outcome = "Method not found."

(***************************************************************************)
(* Claims about the profile handler                                        *)
(***************************************************************************)
\* C9: every request that the handler has finished with has got exactly
\* one response: 405 with the Allow header and no profile lookup for a
\* method other than GET, and a response for a GET whether its lookup
\* succeeded or failed.
C9_EveryRequestAnsweredOnce ==
    \A r \in DOMAIN reqs :
        /\ reqs[r].responses <= 1
        /\ reqs[r].pc \in {"done", "rejected"} => reqs[r].responses = 1
        /\ (reqs[r].pc = "done" /\ reqs[r].method # "GET")
              => (reqs[r].status = 405 /\ reqs[r].allow = "GET" /\ reqs[r].queries = 0)

====
